---------------------------- MODULE Spec2Model ----------------------------
(***************************************************************************)
(* Width measurement of a planar point cloud along user-defined axes.      *)
(*                                                                         *)
(*   point_cloud_processor.py  PointCloud, Axis, AxesLoader, WidthMeasurer *)
(*   app.py                    PointCloudApp (load, run, save, clear)      *)
(*                                                                         *)
(* Numbers are exact rationals <<numerator, denominator>> in lowest terms  *)
(* with a positive denominator; <<0, 0>> stands for a non-finite float     *)
(* (nan).  The axes the model draws have a rational length, so that        *)
(* np.linalg.norm is exact; every other operation of the code (+, -, *, /, *)
(* <=, abs, argmin, argmax, matrix product) is carried out as written.     *)
(***************************************************************************)
EXTENDS Integers, Sequences, FiniteSets, TLC

(***************************************************************************)
(* Bounds of the model.                                                    *)
(***************************************************************************)
MaxPoints == 2

MaxAxes == 2

\* the axes of a caller that projects and indexes the cloud itself
MaxAxesIndexing == 1

(***************************************************************************)
(* Python's None, and the exceptions the code raises.                      *)
(***************************************************************************)
None == [kind |-> "None"]

NoError == [kind |-> "NoError"]

Raised(type, msg) == [kind |-> "Exception", type |-> type, msg |-> msg]

\* the value a call returned
Returned(value) == [kind |-> "Returned", value |-> value]

(***************************************************************************)
(* The Tk variables of the app: the text of the status bar (with the       *)
(* number it shows), and the content of the radius entry, a number or text *)
(* that is none, for which radius_var.get() raises TclError.               *)
(***************************************************************************)
Status(text) == [text |-> text]

StatusN(text, n) == [text |-> text, n |-> n]

Float(value) == [kind |-> "float", value |-> value]

NotANumber == [kind |-> "text"]

(***************************************************************************)
(* A local variable of the code is bound once, as the code assigns it once:*)
(* The({ e : x \in {v} }) is e with x bound to the value of v.             *)
(***************************************************************************)
The(S) == CHOOSE x \in S : TRUE

(***************************************************************************)
(* Exact rational arithmetic.                                              *)
(***************************************************************************)
IAbs(n) == IF n < 0 THEN -n ELSE n

RECURSIVE Gcd(_, _)
Gcd(a, b) == IF b = 0 THEN a ELSE Gcd(b, a % b)

Rat(n, d) ==
    LET g == Gcd(IAbs(n), IAbs(d))
        s == IF d < 0 THEN -1 ELSE 1
    IN  <<(s * n) \div g, (s * d) \div g>>

Q(n) == <<n, 1>>

NaN == <<0, 0>>

IsFinite(a) == a[2] # 0

RAdd(a, b) == Rat(a[1] * b[2] + b[1] * a[2], a[2] * b[2])

RSub(a, b) == Rat(a[1] * b[2] - b[1] * a[2], a[2] * b[2])

RMul(a, b) == Rat(a[1] * b[1], a[2] * b[2])

RDiv(a, b) == Rat(a[1] * b[2], a[2] * b[1])

RNeg(a) == <<-a[1], a[2]>>

RAbs(a) == <<IAbs(a[1]), a[2]>>

RLe(a, b) == a[1] * b[2] <= b[1] * a[2]

RLt(a, b) == a[1] * b[2] < b[1] * a[2]

\* The exact integer square root, where there is one.
IsSquare(n) == \E r \in 0..n : r * r = n

ISqrt(n) == CHOOSE r \in 0..n : r * r = n

HasSqrt(a) == IsSquare(a[1]) /\ IsSquare(a[2])

RSqrt(a) == The({ <<ISqrt(n), ISqrt(d)>> : n \in {a[1]}, d \in {a[2]} })

(***************************************************************************)
(* numpy on 2-vectors and 2x2 matrices.                                    *)
(***************************************************************************)
VAdd(a, b) == <<RAdd(a[1], b[1]), RAdd(a[2], b[2])>>

VSub(a, b) == <<RSub(a[1], b[1]), RSub(a[2], b[2])>>

VDiv(a, s) == <<RDiv(a[1], s), RDiv(a[2], s)>>

\* np.linalg.norm of a 2-vector
SqNorm(v) == RAdd(RMul(v[1], v[1]), RMul(v[2], v[2]))

Norm(v) == RSqrt(SqNorm(v))

\* m.T
Transpose(m) == << <<m[1][1], m[2][1]>>, <<m[1][2], m[2][2]>> >>

\* np.dot(v, m) of a row vector v and a matrix m: out[j] = sum_k v[k] * m[k][j]
Dot(v, m) ==
    << RAdd(RMul(v[1], m[1][1]), RMul(v[2], m[2][1])),
       RAdd(RMul(v[1], m[1][2]), RMul(v[2], m[2][2])) >>

\* the inner product of two vectors
Inner(a, b) == RAdd(RMul(a[1], b[1]), RMul(a[2], b[2]))

(***************************************************************************)
(* PointCloud                                   point_cloud_processor.py   *)
(*                                                                         *)
(* points is the array as a sequence of rows <<x, y, z>>; ndim is the      *)
(* array's number of dimensions (np.loadtxt squeezes a one-row file to a   *)
(* 1-D array); tree is None or the cKDTree, which holds its own copy of    *)
(* the (x, y) columns it was built from.                                   *)
(***************************************************************************)
PointCloud(points, ndim) ==
    [kind |-> "PointCloud", points |-> points, ndim |-> ndim, tree |-> None]

\* from_file.  A file is [parses, rows]: np.loadtxt raises ValueError on a
\* token that is no number or a row with fewer than 3 columns, and returns a
\* 1-D array for a file of at most one row.
FromFile(file) ==
    IF ~file.parses
    THEN Raised("ValueError", "could not convert string to float")
    ELSE PointCloud(file.rows, IF Len(file.rows) <= 1 THEN 1 ELSE 2)

\* self.points[:, 2] = 0 : an IndexError on a 1-D array
ProjectRaises(pc) == pc.ndim # 2

ProjectToXYPlane(pc) ==
    [pc EXCEPT !.points = [i \in DOMAIN pc.points |->
                              <<pc.points[i][1], pc.points[i][2], Q(0)>>]]

\* self.points[:, :2]
XY(points) == [i \in DOMAIN points |-> <<points[i][1], points[i][2]>>]

\* cKDTree(data): a ValueError unless data is 2-D and finite
BuildRaises(pc) ==
    \/ pc.ndim # 2
    \/ \E i \in DOMAIN pc.points :
          ~IsFinite(pc.points[i][1]) \/ ~IsFinite(pc.points[i][2])

BuildKdTree(pc) ==
    [pc EXCEPT !.tree = [kind |-> "cKDTree", data |-> XY(pc.points)]]

\* tree.query_ball_point(x, r): the indices of the points within r of x.  A
\* tree of at most leafsize (16) points is one leaf, which is scanned in
\* index order.
QueryBallPoint(tree, x, r) ==
    The({ LET Near(i) == RLe(SqNorm(VSub(data[i], centre)), rr)
          IN  IF RLt(r, Q(0)) THEN <<>>
              ELSE SelectSeq([i \in DOMAIN data |-> i], Near)
        : data \in {tree.data}, centre \in {x}, rr \in {RMul(r, r)} })

(***************************************************************************)
(* Axis                                                                    *)
(***************************************************************************)
Axis(start, end, axis_id) ==
    [start |-> <<start[1], start[2]>>, end |-> <<end[1], end[2]>>, id |-> axis_id]

Direction(axis) ==
    The({ The({ IF RLt(Q(0), norm) THEN VDiv(vec, norm) ELSE vec
              : norm \in {Norm(vec)} })
        : vec \in {VSub(axis.end, axis.start)} })

Normal(axis) ==
    The({ <<RNeg(direction[2]), direction[1]>> : direction \in {Direction(axis)} })

Length(axis) == Norm(VSub(axis.end, axis.start))

Center(axis) == VDiv(VAdd(axis.start, axis.end), Q(2))

\* rot_matrix, as transform_to_local and to_global both build it
RotMatrix(axis) ==
    The({ << <<direction[1], normal[1]>>,
             <<direction[2], normal[2]>> >>
        : direction \in {Direction(axis)}, normal \in {Normal(axis)} })

\* transform_to_local, on an array of rows (x, y)
TransformToLocal(axis, points) ==
    The({ [i \in DOMAIN translated |-> Dot(translated[i], Transpose(rot_matrix))]
        : rot_matrix \in {RotMatrix(axis)},
          translated \in {The({ [i \in DOMAIN points |-> VSub(points[i], center)]
                               : center \in {Center(axis)} })} })

\* transform_to_local of the one-row array [p]
LocalPoint(axis, p) == TransformToLocal(axis, <<p>>)[1]

(***************************************************************************)
(* AxesLoader                                                              *)
(***************************************************************************)
\* load_from_dxf.  A file is [readable, lines]: ezdxf.readfile raises on a
\* file that is no DXF, and the exception is raised again; the LINE entities
\* become axes numbered from 0 in file order.
LoadFromDxf(file) ==
    IF ~file.readable
    THEN Raised("DXFStructureError", "not a DXF file")
    ELSE Returned([i \in DOMAIN file.lines |->
                      Axis(file.lines[i][1], file.lines[i][2], i - 1)])

(***************************************************************************)
(* WidthMeasurer                                                           *)
(***************************************************************************)
\* the default radius, 0.025
DefaultRadius == Rat(1, 40)

\* a bug: a radius of 0 accepted
ValidateInputsZeroRadius(point_cloud, axes, radius) ==
    IF RLt(radius, Q(0))
    THEN Raised("ValueError", "radius must be positive")
    ELSE IF Len(axes) = 0
    THEN Raised("ValueError", "axis list is empty")
    ELSE IF point_cloud = None \/ point_cloud.tree = None
    THEN Raised("RuntimeError", "KD-tree not built")
    ELSE NoError

\* _validate_inputs: the exception __init__ raises, or NoError.  hasattr
\* fails on an object that is no PointCloud (None, in the app after clear_all).
ValidateInputs(point_cloud, axes, radius) ==
    IF RLe(radius, Q(0))
    THEN Raised("ValueError", "radius must be positive")
    ELSE IF Len(axes) = 0
    THEN Raised("ValueError", "axis list is empty")
    ELSE IF point_cloud = None \/ point_cloud.tree = None
    THEN Raised("RuntimeError", "KD-tree not built")
    ELSE NoError

\* a bug: the search ball of half the axis length, without the radius
NearIndicesNoMargin(point_cloud, axis, radius) ==
    QueryBallPoint(point_cloud.tree, Center(axis), RDiv(Length(axis), Q(2)))

\* the indices _get_points_near_axis takes from the tree
NearIndices(point_cloud, axis, radius) ==
    The({ The({ QueryBallPoint(point_cloud.tree, Center(axis), half_length)
              : half_length \in {RAdd(RDiv(axis_length, Q(2)), radius)} })
        : axis_length \in {Length(axis)} })

\* self.point_cloud.points[indices, :2]
GetPointsNearAxis(point_cloud, axis, radius) ==
    The({ [k \in DOMAIN indices |-> xy[indices[k]]]
        : indices \in {NearIndices(point_cloud, axis, radius)},
          xy \in {XY(point_cloud.points)} })

\* a bug: a band of twice the radius
InBandTwiceRadius(local_points, radius) ==
    LET Keep(q) == RLe(RAbs(q[2]), RMul(Q(2), radius))
    IN  SelectSeq(local_points, Keep)

\* local_points[np.abs(local_points[:, 1]) <= self.radius]
InBand(local_points, radius) ==
    LET Keep(q) == RLe(RAbs(q[2]), radius)
    IN  SelectSeq(local_points, Keep)

\* a bug: the last index of the least value of column 0
ArgMinLast(rows) ==
    CHOOSE i \in DOMAIN rows :
        /\ \A j \in DOMAIN rows : RLe(rows[i][1], rows[j][1])
        /\ \A j \in (i + 1)..Len(rows) : RLt(rows[i][1], rows[j][1])

\* np.argmin / np.argmax of column 0: the first index of the extreme value
ArgMin(rows) ==
    CHOOSE i \in DOMAIN rows :
        /\ \A j \in DOMAIN rows : RLe(rows[i][1], rows[j][1])
        /\ \A j \in 1..(i - 1) : RLt(rows[i][1], rows[j][1])

ArgMax(rows) ==
    CHOOSE i \in DOMAIN rows :
        /\ \A j \in DOMAIN rows : RLe(rows[j][1], rows[i][1])
        /\ \A j \in 1..(i - 1) : RLt(rows[j][1], rows[i][1])

\* a bug: to_global with the transposed matrix, which rotates the same way
\* as transform_to_local instead of back
ToGlobalTransposed(axis, point) ==
    VAdd(Dot(point, Transpose(RotMatrix(axis))), Center(axis))

\* to_global, the closure of measure_width_along_axis
ToGlobal(axis, point) ==
    The({ VAdd(Dot(point, rot_matrix), Center(axis))
        : rot_matrix \in {RotMatrix(axis)} })

MeasurementResult(axis_id, start_point, end_point, width, points_used, local_coords) ==
    [kind |-> "MeasurementResult", axis_id |-> axis_id,
     start_point |-> start_point, end_point |-> end_point, width |-> width,
     points_used |-> points_used, local_coords |-> local_coords]

\* measure_width_along_axis.  Its try/except turns every exception into None:
\* with no tree, self.point_cloud.tree.query_ball_point is an AttributeError.
MeasureWidthAlongAxis(point_cloud, axis, radius) ==
    IF point_cloud = None \/ point_cloud.tree = None
    THEN None
    ELSE
    The({ IF Len(points) < 2
          THEN None
          ELSE
          The({ IF Len(in_band) < 2
                THEN None
                ELSE
                The({ MeasurementResult(axis.id,
                                        ToGlobal(axis, in_band[min_idx]),
                                        ToGlobal(axis, in_band[max_idx]),
                                        RSub(in_band[max_idx][1], in_band[min_idx][1]),
                                        points, in_band)
                    : min_idx \in {ArgMin(in_band)}, max_idx \in {ArgMax(in_band)} })
              : in_band \in {InBand(TransformToLocal(axis, points), radius)} })
        : points \in {GetPointsNearAxis(point_cloud, axis, radius)} })

\* `if result:` a MeasurementResult is an object without __bool__ or __len__,
\* hence true; None is false
Truthy(result) == result # None

\* measure_all_widths: the loop over self.axes, from axis number i on
RECURSIVE MeasureLoop(_, _, _, _, _)
MeasureLoop(point_cloud, axes, radius, i, results) ==
    IF i > Len(axes)
    THEN results
    ELSE The({ MeasureLoop(point_cloud, axes, radius, i + 1,
                           IF Truthy(result) THEN Append(results, result)
                                             ELSE results)
             : result \in {MeasureWidthAlongAxis(point_cloud, axes[i], radius)} })

\* a bug: the results collected in the order the measurements finish, here
\* the last axis first
MeasureAllWidthsLastFirst(point_cloud, axes, radius) ==
    LET rs == MeasureLoop(point_cloud, axes, radius, 1, <<>>)
    IN  [k \in DOMAIN rs |-> rs[Len(rs) + 1 - k]]

MeasureAllWidths(point_cloud, axes, radius) ==
    MeasureLoop(point_cloud, axes, radius, 1, <<>>)

(***************************************************************************)
(* The inputs the model draws.                                             *)
(***************************************************************************)
\* coordinates in steps of the default radius
G(n) == RMul(Q(n), DefaultRadius)

Pt(x, y, z) == <<G(x), G(y), G(z)>>

\* rows (x, y, z) of a point array
PointGrid == { Pt(0, 0, 0), Pt(0, 1, 1), Pt(3, 0, 0), Pt(0, 4, 2) }

\* segments (start, end): along x, oblique (3-4-5), along y, zero length
SegmentGrid ==
    { <<Pt(0, 0, 0), Pt(3, 0, 0)>>, <<Pt(0, 0, 0), Pt(3, 4, 0)>>,
      <<Pt(0, 1, 0), Pt(0, 3, 0)>>, <<Pt(0, 0, 0), Pt(0, 0, 0)>> }

Radii == { Q(-1), Q(0), DefaultRadius }

SeqsUpTo(S, n) == UNION { [1..k -> S] : k \in 0..n }

\* the axes AxesLoader makes of the segments
AxesOf(segments) == LoadFromDxf([readable |-> TRUE, lines |-> segments]).value

\* the end-to-end example: four points, one axis along x, the default radius
EndToEndPoints ==
    << <<Q(0), Q(0), Q(0)>>, <<Q(0), Rat(1, 50), Q(0)>>,
       <<Q(1), Rat(1, 100), Q(0)>>, <<Q(1), Rat(-1, 100), Q(0)>> >>

EndToEndSegment == << <<Q(0), Q(0), Q(0)>>, <<Q(1), Q(0), Q(0)>> >>

EndToEndAxes == AxesOf(<< EndToEndSegment >>)

\* the .xyz files the user of the app may pick: one that does not parse, one
\* of a single row, one with a nan, and three good ones
UnparsableFile == [parses |-> FALSE, rows |-> <<>>]

OneRowFile == [parses |-> TRUE, rows |-> << Pt(0, 0, 0) >>]

NanFile == [parses |-> TRUE, rows |-> << Pt(0, 0, 0), <<NaN, G(0), G(0)>> >>]

CloudFiles ==
    { UnparsableFile, OneRowFile, NanFile,
      [parses |-> TRUE, rows |-> << Pt(0, 0, 0), Pt(3, 0, 0) >>],
      [parses |-> TRUE, rows |-> << Pt(0, 4, 2), Pt(3, 0, 0), Pt(0, 1, 1) >>],
      [parses |-> TRUE, rows |-> EndToEndPoints] }

\* the .dxf files: one that is no DXF, one without LINE entities, and three
\* with lines
AxisFiles ==
    { [readable |-> FALSE, lines |-> <<>>],
      [readable |-> TRUE, lines |-> <<>>],
      [readable |-> TRUE, lines |-> << <<Pt(0, 0, 0), Pt(3, 0, 0)>> >>],
      [readable |-> TRUE, lines |-> << <<Pt(0, 0, 0), Pt(3, 4, 0)>>,
                                       <<Pt(0, 0, 0), Pt(0, 0, 0)>> >>],
      [readable |-> TRUE, lines |-> << EndToEndSegment >>] }

(***************************************************************************)
(* State.                                                                  *)
(*                                                                         *)
(* A caller of the library: one PointCloud object pc, the axis list        *)
(* arg_axes it constructs a WidthMeasurer with, measurer (None, the        *)
(* exception the constructor raised, or the object, whose point_cloud is   *)
(* pc itself), and results, what measurer.measure_all_widths last returned *)
(* (None before the call).  stale is a history variable:                   *)
(* project_to_xy_plane has been called since the tree was built.           *)
(*                                                                         *)
(* PointCloudApp: its fields point_cloud, axes, measurements and           *)
(* current_radius, the Tk variables radius_var and status_var, and         *)
(* progress, the ProgressWindow a started worker thread owns.              *)
(***************************************************************************)
VARIABLES pc, arg_axes, measurer, results, stale,
          app_point_cloud, app_axes, measurements, current_radius,
          radius_var, status_var, progress

libvars == <<pc, arg_axes, measurer, results, stale>>

appvars == <<app_point_cloud, app_axes, measurements, current_radius,
             radius_var, status_var, progress>>

vars == <<libvars, appvars>>

(***************************************************************************)
(* The library and its caller.                                             *)
(***************************************************************************)
\* a cloud made ready the way load_point_cloud does: projected, then indexed
Indexed(points) == BuildKdTree(ProjectToXYPlane(PointCloud(points, 2)))

\* Measuring: the caller holds a ready cloud and an axis list; the app is as
\* PointCloudApp.__init__ leaves it
Init ==
    /\ \/ /\ pc \in { Indexed(points) : points \in SeqsUpTo(PointGrid, MaxPoints) }
          /\ arg_axes \in { AxesOf(segs) : segs \in SeqsUpTo(SegmentGrid, MaxAxes) }
       \/ /\ pc = Indexed(EndToEndPoints)
          /\ arg_axes = EndToEndAxes
    /\ measurer = None
    /\ results = None
    /\ stale = FALSE
    /\ app_point_cloud = None
    /\ app_axes = <<>>
    /\ measurements = <<>>
    /\ current_radius = DefaultRadius
    /\ radius_var = Float(DefaultRadius)
    /\ status_var = Status("ready")
    /\ progress = FALSE

\* pc.project_to_xy_plane()
CallProject ==
    /\ ~ProjectRaises(pc)
    /\ pc' = ProjectToXYPlane(pc)
    /\ stale' = (stale \/ pc.tree # None)
    /\ UNCHANGED <<arg_axes, measurer, results, appvars>>

\* pc.build_kd_tree()
CallBuild ==
    /\ ~BuildRaises(pc)
    /\ pc' = BuildKdTree(pc)
    /\ stale' = FALSE
    /\ UNCHANGED <<arg_axes, measurer, results, appvars>>

\* WidthMeasurer(point_cloud, axes, radius): the object, or the exception
\* __init__ raises
NewWidthMeasurer(point_cloud, axes, radius) ==
    LET e == ValidateInputs(point_cloud, axes, radius)
    IN  IF e # NoError
        THEN e
        ELSE [kind |-> "WidthMeasurer", axes |-> axes, radius |-> radius]

\* measurer = WidthMeasurer(pc, arg_axes, radius)
CallConstruct ==
    /\ \E radius \in Radii : measurer' = NewWidthMeasurer(pc, arg_axes, radius)
    /\ results' = None
    /\ UNCHANGED <<pc, arg_axes, stale, appvars>>

\* results = measurer.measure_all_widths()
CallMeasureAll ==
    /\ measurer.kind = "WidthMeasurer"
    /\ results' = Returned(MeasureAllWidths(pc, measurer.axes, measurer.radius))
    /\ UNCHANGED <<pc, arg_axes, measurer, stale, appvars>>

Next == CallConstruct \/ CallMeasureAll

Spec == Init /\ [][Next]_vars

\* The life of the index: the caller holds a cloud as PointCloud.__init__
\* leaves it, and at most one axis
IndexInit ==
    /\ pc \in { PointCloud(points, 2) : points \in SeqsUpTo(PointGrid, MaxPoints) }
    /\ arg_axes \in { AxesOf(segs) : segs \in SeqsUpTo(SegmentGrid, MaxAxesIndexing) }
    /\ measurer = None
    /\ results = None
    /\ stale = FALSE
    /\ app_point_cloud = None
    /\ app_axes = <<>>
    /\ measurements = <<>>
    /\ current_radius = DefaultRadius
    /\ radius_var = Float(DefaultRadius)
    /\ status_var = Status("ready")
    /\ progress = FALSE

IndexNext == CallProject \/ CallBuild \/ CallConstruct \/ CallMeasureAll

IndexSpec == IndexInit /\ [][IndexNext]_vars

(***************************************************************************)
(* PointCloudApp                                                  app.py   *)
(*                                                                         *)
(* The handlers run one at a time on the Tk main loop.  While a worker     *)
(* thread runs, its ProgressWindow holds the grab (grab_set), so no button *)
(* of the main window is served until the worker destroys it.  The logger, *)
(* the message boxes and the visualizer are not modelled.                  *)
(***************************************************************************)
RadiusEntries == { Float(radius) : radius \in Radii } \cup { NotANumber }

\* PointCloudApp.__init__; the caller of the library is idle
AppInit ==
    /\ pc = None
    /\ arg_axes = <<>>
    /\ measurer = None
    /\ results = None
    /\ stale = FALSE
    /\ app_point_cloud = None
    /\ app_axes = <<>>
    /\ measurements = <<>>
    /\ current_radius = DefaultRadius
    /\ radius_var = Float(DefaultRadius)
    /\ status_var = Status("ready")
    /\ progress = FALSE

\* load_point_cloud: the dialog is cancelled, or a file is picked
LoadPointCloud ==
    /\ ~progress
    /\ \/ UNCHANGED <<app_point_cloud, status_var>>
       \/ \E path \in CloudFiles :
              LET loaded == FromFile(path)
              IN  IF loaded.kind = "Exception"
                  THEN /\ status_var' = Status("load error")
                       /\ UNCHANGED app_point_cloud
                  ELSE IF ProjectRaises(loaded)
                  THEN /\ app_point_cloud' = loaded
                       /\ status_var' = Status("load error")
                  ELSE IF BuildRaises(ProjectToXYPlane(loaded))
                  THEN /\ app_point_cloud' = ProjectToXYPlane(loaded)
                       /\ status_var' = Status("load error")
                  ELSE /\ app_point_cloud' = BuildKdTree(ProjectToXYPlane(loaded))
                       /\ status_var' = StatusN("points loaded", Len(loaded.points))
    /\ UNCHANGED <<app_axes, measurements, current_radius, radius_var, progress, libvars>>

\* load_axes: the dialog is cancelled, or a file is picked
LoadAxes ==
    /\ ~progress
    /\ \/ UNCHANGED <<app_axes, status_var>>
       \/ \E path \in AxisFiles :
              LET loaded == LoadFromDxf(path)
              IN  IF loaded.kind = "Exception"
                  THEN /\ status_var' = Status("load error")
                       /\ UNCHANGED app_axes
                  ELSE /\ app_axes' = loaded.value
                       /\ status_var' = StatusN("axes loaded", Len(loaded.value))
    /\ UNCHANGED <<app_point_cloud, measurements, current_radius, radius_var, progress,
                   libvars>>

\* the user types into the entry bound to radius_var
EditRadius ==
    /\ ~progress
    /\ radius_var' \in RadiusEntries
    /\ UNCHANGED <<app_point_cloud, app_axes, measurements, current_radius, status_var,
                   progress, libvars>>

\* run_measurements, up to the start of the worker thread
RunMeasurements ==
    /\ ~progress
    /\ IF app_point_cloud = None \/ Len(app_axes) = 0
       THEN UNCHANGED <<current_radius, status_var, progress>>
       ELSE IF radius_var = NotANumber
       THEN /\ status_var' = Status("parameter error")
            /\ UNCHANGED <<current_radius, progress>>
       ELSE /\ current_radius' = radius_var.value
            /\ IF RLe(radius_var.value, Q(0))
               THEN /\ status_var' = Status("parameter error")
                    /\ UNCHANGED progress
               ELSE /\ progress' = TRUE
                    /\ UNCHANGED status_var
    /\ UNCHANGED <<app_point_cloud, app_axes, measurements, radius_var, libvars>>

\* worker, the body of the thread run_measurements starts
Worker ==
    /\ progress
    /\ LET worker_measurer == NewWidthMeasurer(app_point_cloud, app_axes, current_radius)
       IN  IF worker_measurer.kind = "Exception"
           THEN /\ status_var' = Status("measure error")
                /\ UNCHANGED measurements
           ELSE \E measured \in { MeasureAllWidths(app_point_cloud, worker_measurer.axes,
                                                   worker_measurer.radius) } :
                    /\ measurements' = measured
                    /\ status_var' = StatusN("done", Len(measured))
    /\ progress' = FALSE
    /\ UNCHANGED <<app_point_cloud, app_axes, current_radius, radius_var, libvars>>

\* save_results: nothing to save, the dialog cancelled, the file written, or
\* an OSError while writing
SaveResults ==
    /\ ~progress
    /\ \/ UNCHANGED status_var
       \/ /\ Len(measurements) > 0
          /\ status_var' = Status("saved")
    /\ UNCHANGED <<app_point_cloud, app_axes, measurements, current_radius, radius_var,
                   progress, libvars>>

\* clear_all
ClearAll ==
    /\ ~progress
    /\ app_point_cloud' = None
    /\ app_axes' = <<>>
    /\ measurements' = <<>>
    /\ status_var' = Status("cleared")
    /\ UNCHANGED <<current_radius, radius_var, progress, libvars>>

AppNext ==
    \/ LoadPointCloud
    \/ LoadAxes
    \/ EditRadius
    \/ RunMeasurements
    \/ Worker
    \/ SaveResults
    \/ ClearAll

AppSpec == AppInit /\ [][AppNext]_vars

(***************************************************************************)
(* Properties of the library.                                              *)
(***************************************************************************)
Degenerate(axis) == axis.start = axis.end

\* the rows (x, y) of the cloud the caller holds
CloudXY == XY(pc.points)

\* the axis of the measurer with the given id
AxisOfId(axis_id) ==
    measurer.axes[CHOOSE i \in DOMAIN measurer.axes : measurer.axes[i].id = axis_id]

\* what measure_width_along_axis returns for the axis, measured alone
Alone(axis) == MeasureWidthAlongAxis(pc, axis, measurer.radius)

\* C1: a zero-length axis (start = end) is never measured, whatever the cloud
\* and the radius > 0: measure_width_along_axis returns None for it, and the
\* list measure_all_widths returns holds no result with its id.
C1_DegenerateAxisRejected ==
    results # None =>
        \A i \in DOMAIN measurer.axes :
            Degenerate(measurer.axes[i]) =>
                /\ Alone(measurer.axes[i]) = None
                /\ \A k \in DOMAIN results.value :
                       results.value[k].axis_id # measurer.axes[i].id

\* the perpendicular distance |v| of p to the line of the axis, v the
\* projection of (p - center) onto the normal
PerpDistance(axis, p) == RAbs(Inner(VSub(p, Center(axis)), Normal(axis)))

\* the points of the cloud within radius of the line of the axis
NearLine(axis, radius) ==
    { k \in DOMAIN CloudXY : RLe(PerpDistance(axis, CloudXY[k]), radius) }

\* C2: for a non-degenerate axis of any orientation, when fewer than 2 points
\* of the cloud lie within radius of the axis line (|v| <= radius),
\* measure_width_along_axis returns None and measure_all_widths holds no
\* result for the axis.
C2_TooFewNearLineNoResult ==
    results # None =>
        \A i \in DOMAIN measurer.axes :
            ( /\ ~Degenerate(measurer.axes[i])
              /\ Cardinality(NearLine(measurer.axes[i], measurer.radius)) < 2 ) =>
                /\ Alone(measurer.axes[i]) = None
                /\ \A k \in DOMAIN results.value :
                       results.value[k].axis_id # measurer.axes[i].id

\* (u, v) of p: the projections of (p - center) onto direction and normal
Projections(axis, p) ==
    << Inner(VSub(p, Center(axis)), Direction(axis)),
       Inner(VSub(p, Center(axis)), Normal(axis)) >>

\* C3: for a non-degenerate axis of any orientation and every point p,
\* transform_to_local(p) is (u, v) with u = (p - center) . direction and
\* v = (p - center) . normal; the local coordinates of every result are
\* these projections of its candidate points.
C3_LocalCoordinatesAreProjections ==
    /\ \A i \in DOMAIN arg_axes : \A k \in DOMAIN CloudXY :
           ~Degenerate(arg_axes[i]) =>
               LocalPoint(arg_axes[i], CloudXY[k]) = Projections(arg_axes[i], CloudXY[k])
    /\ results # None =>
           \A k \in DOMAIN results.value :
               LET r == results.value[k]
               IN  ~Degenerate(AxisOfId(r.axis_id)) =>
                       \A j \in DOMAIN r.local_coords :
                           \E m \in DOMAIN r.points_used :
                               r.local_coords[j] =
                                   Projections(AxisOfId(r.axis_id), r.points_used[m])

\* C4: the axis_id values of the list measure_all_widths returns are exactly
\* those of the input axes for which measure_width_along_axis returns a
\* result, in the order of the input: each measured axis once, no failed axis.
C4_ResultsFollowAxisOrder ==
    results # None =>
        LET Measured(axis) == Alone(axis) # None
            measured == SelectSeq(measurer.axes, Measured)
        IN  /\ Len(results.value) = Len(measured)
            /\ \A k \in DOMAIN measured : results.value[k].axis_id = measured[k].id

\* two axes were measured, and a third one that comes first or between them
\* was not, or the list is the two axes of the input
C4_TwoAxesMeasured ==
    /\ results # None
    /\ Len(results.value) = 2
    /\ results.value[1].axis_id < results.value[2].axis_id

\* an axis measure_width_along_axis is to give no result for: zero length,
\* fewer than 2 candidates, or fewer than 2 points in the band
SoftFailure(axis) ==
    \/ Degenerate(axis)
    \/ Len(GetPointsNearAxis(pc, axis, measurer.radius)) < 2
    \/ Len(InBand(TransformToLocal(axis, GetPointsNearAxis(pc, axis, measurer.radius)),
                  measurer.radius)) < 2

\* C5: once a WidthMeasurer is constructed, measure_all_widths returns a list
\* after measuring every axis: a degenerate axis or one with too few candidate
\* or band points has no result in it, and every other axis has the result
\* it gets when measured alone.
C5_BatchCompletesPerAxis ==
    /\ measurer.kind = "WidthMeasurer" =>
           Len(MeasureAllWidths(pc, measurer.axes, measurer.radius)) <= Len(measurer.axes)
    /\ results # None =>
           \A i \in DOMAIN measurer.axes :
               LET axis == measurer.axes[i]
                   mine == { k \in DOMAIN results.value :
                                 results.value[k].axis_id = axis.id }
               IN  IF SoftFailure(axis)
                   THEN mine = {}
                   ELSE /\ Cardinality(mine) = 1
                        /\ \A k \in mine : results.value[k] = Alone(axis)

\* points (x, y) to transform: those of the grid and of the end-to-end example
SamplePoints ==
    { <<p[1], p[2]>> : p \in PointGrid }
        \cup { <<EndToEndPoints[k][1], EndToEndPoints[k][2]>> : k \in DOMAIN EndToEndPoints }

\* C7: for a non-degenerate axis and every point p, to_global of
\* transform_to_local(p) is p, so the start_point and end_point of every
\* result for a non-degenerate axis are points of its points_used.
C7_ToGlobalInvertsToLocal ==
    /\ \A i \in DOMAIN arg_axes : \A p \in SamplePoints :
           ~Degenerate(arg_axes[i]) =>
               ToGlobal(arg_axes[i], LocalPoint(arg_axes[i], p)) = p
    /\ results # None =>
           \A k \in DOMAIN results.value :
               LET r == results.value[k]
               IN  ~Degenerate(AxisOfId(r.axis_id)) =>
                       /\ \E m \in DOMAIN r.points_used : r.points_used[m] = r.start_point
                       /\ \E m \in DOMAIN r.points_used : r.points_used[m] = r.end_point

\* an axis parallel to neither coordinate axis has a result, with distinct
\* start and end points
C7_ObliqueAxisMeasured ==
    /\ results # None
    /\ \E k \in DOMAIN results.value :
           LET direction == Direction(AxisOfId(results.value[k].axis_id))
           IN  /\ direction[1] # Q(0)
               /\ direction[2] # Q(0)
               /\ results.value[k].start_point # results.value[k].end_point

\* the caller holds the cloud and the axis of the end-to-end example, and has
\* measured with the default radius 0.025
EndToEndMeasured ==
    /\ pc = Indexed(EndToEndPoints)
    /\ arg_axes = EndToEndAxes
    /\ results # None
    /\ measurer.radius = DefaultRadius

\* C8: for the cloud {(0,0), (0,0.02), (1,0.01), (1,-0.01)}, the axis from
\* (0,0) to (1,0) and radius 0.025 there is a result: all four points are
\* candidates and all four are in the band, the width is 1, start_point has
\* x = 0 and end_point has x = 1.
C8_EndToEndExample ==
    EndToEndMeasured =>
        /\ Len(results.value) = 1
        /\ Alone(EndToEndAxes[1]) = results.value[1]
        /\ Len(results.value[1].points_used) = 4
        /\ Len(results.value[1].local_coords) = 4
        /\ results.value[1].width = Q(1)
        /\ results.value[1].start_point[1] = Q(0)
        /\ results.value[1].end_point[1] = Q(1)

\* the end-to-end example has been measured and has given its one result
C8_EndToEndResult ==
    /\ EndToEndMeasured
    /\ Len(results.value) = 1
    /\ results.value[1].axis_id = 0

\* C10: project_to_xy_plane after build_kd_tree leaves the cloud without an
\* index (tree is None) until build_kd_tree is called again, so no
\* WidthMeasurer can be constructed on an index built before the most recent
\* projection.
C10_ProjectionInvalidatesIndex ==
    stale =>
        /\ pc.tree = None
        /\ \A radius \in Radii :
               NewWidthMeasurer(pc, arg_axes, radius).kind # "WidthMeasurer"

\* the indices of the rows with the least, and with the greatest, u
LeastU(rows) ==
    { i \in DOMAIN rows : \A j \in DOMAIN rows : RLe(rows[i][1], rows[j][1]) }

GreatestU(rows) ==
    { i \in DOMAIN rows : \A j \in DOMAIN rows : RLe(rows[j][1], rows[i][1]) }

\* the least number of a non-empty set of indices
First(indices) == CHOOSE i \in indices : \A j \in indices : i <= j

\* C11: for every result, width = u_max - u_min over the band-filtered local
\* points and width >= 0; start_point is to_global of the first band point
\* with the least u, end_point that of the first with the greatest u; the
\* result is a function of the cloud, the axis and the radius.
C11_WidthAndExtremePoints ==
    results # None =>
        \A k \in DOMAIN results.value :
            LET r    == results.value[k]
                axis == AxisOfId(r.axis_id)
                rows == r.local_coords
            IN  /\ \A i \in LeastU(rows) : \A j \in GreatestU(rows) :
                       r.width = RSub(rows[j][1], rows[i][1])
                /\ RLe(Q(0), r.width)
                /\ r.start_point = ToGlobal(axis, rows[First(LeastU(rows))])
                /\ r.end_point = ToGlobal(axis, rows[First(GreatestU(rows))])
                /\ r = Alone(axis)

\* a result in which two different band points share the least u
C11_TieAtLeastU ==
    /\ results # None
    /\ \E k \in DOMAIN results.value :
           LET rows == results.value[k].local_coords
           IN  \E i \in LeastU(rows) : \E j \in LeastU(rows) :
                   i < j /\ rows[i] # rows[j]

\* C12: in every result, every band-filtered local point has
\* |u| <= axis.length / 2 + radius and |v| <= radius, hence
\* 0 <= width <= axis.length + 2 * radius: u is not clipped to the extent of
\* the axis, and the width exceeds the axis length by at most 2 * radius.
C12_BandAndWidthBounds ==
    results # None =>
        \A k \in DOMAIN results.value :
            LET r           == results.value[k]
                axis_length == Length(AxisOfId(r.axis_id))
                half_length == RAdd(RDiv(axis_length, Q(2)), measurer.radius)
            IN  /\ \A j \in DOMAIN r.local_coords :
                       /\ RLe(RAbs(r.local_coords[j][1]), half_length)
                       /\ RLe(RAbs(r.local_coords[j][2]), measurer.radius)
                /\ RLe(Q(0), r.width)
                /\ RLe(r.width, RAdd(axis_length, RMul(Q(2), measurer.radius)))

\* a result whose width is greater than the length of its axis
C12_WidthExceedsLength ==
    /\ results # None
    /\ \E k \in DOMAIN results.value :
           /\ ~Degenerate(AxisOfId(results.value[k].axis_id))
           /\ RLt(Length(AxisOfId(results.value[k].axis_id)), results.value[k].width)

(***************************************************************************)
(* Properties of the app.                                                  *)
(***************************************************************************)
\* what a WidthMeasurer needs: a radius > 0, axes, and a cloud with its tree
Constructible(point_cloud, axes, radius) ==
    /\ RLt(Q(0), radius)
    /\ Len(axes) > 0
    /\ point_cloud # None
    /\ point_cloud.tree # None

\* C6: the constructor of WidthMeasurer raises, and nothing is measured, when
\* radius <= 0, the axis list is empty or the tree is not built, and succeeds
\* otherwise; run_measurements starts no worker thread when no cloud is
\* loaded, no axes are loaded or radius <= 0.
C6_ValidationBeforeMeasuring ==
    /\ [](\A point_cloud \in {None, app_point_cloud} :
          \A axes \in {<<>>, app_axes} :
          \A radius \in Radii \cup {current_radius} :
              IF Constructible(point_cloud, axes, radius)
              THEN NewWidthMeasurer(point_cloud, axes, radius).kind = "WidthMeasurer"
              ELSE NewWidthMeasurer(point_cloud, axes, radius).kind = "Exception")
    /\ [][(Worker /\ ~Constructible(app_point_cloud, app_axes, current_radius)) =>
              /\ measurements' = measurements
              /\ status_var' = Status("measure error")]_vars
    /\ [][(~progress /\ progress') =>
              /\ app_point_cloud # None
              /\ Len(app_axes) > 0
              /\ RLt(Q(0), current_radius')]_vars

\* the worker has found the loaded cloud without a tree, and measured nothing
C6_WorkerRefused ==
    /\ status_var = Status("measure error")
    /\ ~progress
    /\ app_point_cloud # None
    /\ Len(app_axes) > 0

\* a measurement run is possible: run_measurements with a radius > 0 starts
\* a worker whose WidthMeasurer is constructed
Runnable == Constructible(app_point_cloud, app_axes, DefaultRadius)

\* C9: a load_point_cloud or load_axes call that fails (file parse,
\* projection or tree build of the cloud; DXF read of the axes) leaves
\* point_cloud with its tree, axes and measurements as they were, so a
\* measurement run that was possible before is possible after.
C9_FailedLoadKeepsState ==
    [][((LoadPointCloud \/ LoadAxes) /\ status_var' = Status("load error")) =>
           /\ UNCHANGED <<app_point_cloud, app_axes, measurements>>
           /\ Runnable => Runnable']_vars

=============================================================================
